---- MODULE Spec2Model ----
(***************************************************************************)
(* Client-side API access layer of series-finder:                          *)
(*   frontend/src/services/apiService.ts  (ApiService.request, the facade  *)
(*   methods, the error classes)                                           *)
(*   frontend/src/hooks/useApi.ts  (the hooks useApi and useQuery)         *)
(* Spec follows one facade call from its invocation to the settlement of   *)
(* its promise.  HookSpec follows one mounted hook through the calls made  *)
(* on it, the settlements of the functions it was given and its timers.    *)
(* Texts (messages, endpoints) are sequences of string                     *)
(* tokens, so that template literals are concatenations (\o).              *)
(* Record constructors list their fields in the order in which TLC keeps   *)
(* them (the order in which the names first occur in this module).         *)
(***************************************************************************)
EXTENDS Integers, Sequences, FiniteSets, TLC

VARIABLES
    MODE,        \* import.meta.env.MODE of the build
    pc,          \* position of the call: idle, fetching, delaying, done
    op,          \* facade method that was called
    args,        \* its arguments
    endpoint,    \* endpoint handed to request
    attempt,     \* loop variable of request
    fetchCount,  \* number of fetch invocations made by the call
    waits,       \* timeouts (ms) passed to setTimeout by delay, in order
    log,         \* how each fetch of the call settled: response, rejection
    last,        \* what fetch answered in the current iteration of the loop
    reqResult,   \* settlement of the promise of request
    result,      \* settlement of the promise of the facade method
    hook,        \* hook the component mounted: none, useApi, useQuery
    enabled,     \* options.enabled of useQuery
    maxRetries,  \* const maxRetries of useQuery
    loading,     \* useState: loading
    errorText,   \* useState: error (a message or null)
    dataValue,   \* useState: data (a value or null)
    retryCount,  \* useState: retryCount of useQuery
    pending,     \* executes awaiting their apiCall, in order of start
    timers,      \* setTimeout callbacks of fetchData not yet fired
    calls,       \* number of invocations of an apiCall / queryFn
    refetches,   \* number of calls of refetch by the component
    scheduled,   \* timeouts (ms) passed to setTimeout by fetchData, in order
    step,        \* what happened last on the hook
    outcome,     \* settlement of the apiCall of the execute that ended last
    executeResult, \* settlement of the promise of that execute
    classified,  \* isRetryableError(err) found by fetchData for that execute
    retryResult, \* settlement of the promise of the last retry
    callbacks,   \* names of the callbacks given in options
    onSuccessArgs, \* arguments with which the last step called onSuccess
    onErrorArgs, \* arguments with which the last step called onError
    late,        \* the execute that ended last began before one that
                 \* had already resolved
    requests,    \* the calls of request made on the instance, in order of
                 \* start, each with its own locals
    invocations  \* number of fetch invocations made by the instance

engineVars == <<MODE, pc, op, args, endpoint, attempt, fetchCount, waits, log,
                last, reqResult, result>>

hookVars == <<hook, enabled, maxRetries, loading, errorText, dataValue,
              retryCount, pending, timers, calls, refetches, scheduled, step,
              outcome, executeResult, classified, retryResult, callbacks,
              onSuccessArgs, onErrorArgs, late>>

concVars == <<requests, invocations>>

vars == <<engineVars, hookVars, concVars>>

----------------------------------------------------------------------------
(* Error classes and values                                                *)

NoText == <<>>

NoError ==
    [endpoint |-> NoText, cls |-> "none", status |-> 0, statusText |-> NoText,
     message |-> NoText, field |-> ""]

\* any thrown value: cls is the constructor ("string" for a non-Error value)
Thrown(cls, message) ==
    [endpoint |-> NoText, cls |-> cls, status |-> 0, statusText |-> NoText,
     message |-> message, field |-> ""]

ApiError(status, statusText, message, ep) ==
    [endpoint |-> ep, cls |-> "ApiError", status |-> status,
     statusText |-> statusText, message |-> message, field |-> ""]

NetworkError(message, ep) ==
    [endpoint |-> ep, cls |-> "NetworkError", status |-> 0,
     statusText |-> NoText, message |-> message, field |-> ""]

ValidationError(message, field) ==
    [endpoint |-> NoText, cls |-> "ValidationError", status |-> 0,
     statusText |-> NoText, message |-> message, field |-> field]

\* e instanceof Error
InstanceOfError(e) == e.cls \notin {"none", "string"}

\* String.prototype.includes on the tokens of a text
includes(text, token) == \E i \in DOMAIN text : text[i] = token

NoBody == [message |-> NoText, parses |-> FALSE, error |-> NoText]

Undefined  == [t |-> "undefined", body |-> NoBody]
Null       == [t |-> "null", body |-> NoBody]
EmptyArray == [t |-> "array", body |-> NoBody]
JsonValue(body) == [t |-> "json", body |-> body]

Pending     == [error |-> NoError, state |-> "pending", value |-> Undefined]
Resolved(v) == [error |-> NoError, state |-> "resolved", value |-> v]
Rejected(e) == [error |-> e, state |-> "rejected", value |-> Undefined]

----------------------------------------------------------------------------
(* The transport (fetch): what one invocation can answer                   *)

OkStatuses == {200, 204}
ErrorStatuses == {400, 401, 403, 404, 408, 409, 429, 500, 502, 503, 504}
Statuses == OkStatuses \cup ErrorStatuses

StatusText(status) ==
    CASE status = 200 -> <<"OK">>
      [] status = 204 -> <<"No Content">>
      [] status = 400 -> <<"Bad Request">>
      [] status = 401 -> <<"Unauthorized">>
      [] status = 403 -> <<"Forbidden">>
      [] status = 404 -> <<"Not Found">>
      [] status = 408 -> <<"Request Timeout">>
      [] status = 409 -> <<"Conflict">>
      [] status = 429 -> <<"Too Many Requests">>
      [] status = 500 -> <<"Internal Server Error">>
      [] status = 502 -> <<"Bad Gateway">>
      [] status = 503 -> <<"Service Unavailable">>
      [] status = 504 -> <<"Gateway Timeout">>
      [] OTHER -> NoText

\* bodies: not JSON, or a JSON object with or without message / error
Bodies ==
    {NoBody} \cup
    { [message |-> m, parses |-> TRUE, error |-> e] :
        m \in {NoText, <<"server message">>},
        e \in {NoText, <<"server error">>} }

\* the content-type header of a response (NoText: header absent)
ContentTypes == {NoText, <<"application/json", "; charset=utf-8">>}

\* the body of a success response: not JSON, or a JSON document
SuccessBodies == {NoBody, [message |-> NoText, parses |-> TRUE, error |-> NoText]}

Response(status, contentType, body) ==
    [status |-> status, body |-> body, contentType |-> contentType]

Responses ==
    { Response(s, c, b) : s \in OkStatuses, c \in ContentTypes,
                          b \in SuccessBodies }
    \cup { Response(s, c, b) : s \in ErrorStatuses, c \in ContentTypes,
                               b \in Bodies }

\* values with which the fetch promise can reject
Rejections ==
    { Thrown("TypeError", <<"Failed to ", "fetch">>),
      Thrown("TypeError", <<"Load failed">>),
      Thrown("DOMException", <<"The operation was aborted.">>),
      Thrown("string", NoText) }

----------------------------------------------------------------------------
(* ApiService.request                                                      *)

DefaultRetries == 3

Return(v) == [error |-> NoError, value |-> v, act |-> "return"]
Throw(e)  == [error |-> e, value |-> Undefined, act |-> "throw"]
Continue  == [error |-> NoError, value |-> Undefined, act |-> "continue"]

\* response.ok
ok(response) == response.status >= 200 /\ response.status <= 299

\* for (...; attempt <= retries; ...)
LoopGuard(a, retries) == a <= retries

\* variants of the retry test: one attempt short, one attempt long
RetriesLeft_short(a, retries) == a < retries - 1

RetriesLeft_long(a, retries) == a <= retries

\* if (attempt < retries) { await this.delay(...); continue }
RetriesLeft(a, retries) == a < retries

\* variant: a backoff that grows linearly
Backoff_linear(a) == (a + 1) * 1000

\* Math.pow(2, attempt) * 1000
Backoff(a) == (2 ^ a) * 1000

\* delay(ms): the timeout handed to setTimeout
delay(ms) == IF MODE = "test" THEN ms \div 10 ELSE ms

\* variant: the error field of the body is preferred to its message field
ParsedMessage_errorFirst(response) ==
    LET fallback == <<"Request failed: ", ToString(response.status), " ">>
                        \o StatusText(response.status)
        b == response.body
    IN  IF ~b.parses THEN fallback
        ELSE IF b.error # NoText THEN b.error
        ELSE IF b.message # NoText THEN b.message
        ELSE fallback

\* errorData.message || errorData.error || errorMessage, with the fallback
\* kept when response.json() throws
ParsedMessage(response) ==
    LET fallback == <<"Request failed: ", ToString(response.status), " ">>
                        \o StatusText(response.status)
        b == response.body
    IN  IF ~b.parses THEN fallback
        ELSE IF b.message # NoText THEN b.message
        ELSE IF b.error # NoText THEN b.error
        ELSE fallback

\* variant: a 500 response is retried like 502, 503 and 504
StatusSwitch_retry500(response, a, retries, ep) ==
    LET s == response.status
        errorMessage == ParsedMessage(response)
    IN  CASE s = 400 -> Throw(ValidationError(errorMessage, ""))
          [] s = 401 -> Throw(ApiError(401, <<"Unauthorized">>,
                                       <<"Authentication required">>, ep))
          [] s = 403 -> Throw(ApiError(403, <<"Forbidden">>,
                                       <<"Access denied">>, ep))
          [] s = 404 -> Throw(ApiError(404, <<"Not Found">>,
                                       <<"Resource not found: ">> \o ep, ep))
          [] s = 409 -> Throw(ApiError(s, StatusText(s), errorMessage, ep))
          [] s = 429 ->
                IF RetriesLeft(a, retries) THEN Continue
                ELSE Throw(ApiError(429, <<"Too Many Requests">>,
                                    <<"Rate limit exceeded">>, ep))
          [] s = 500 ->
                IF RetriesLeft(a, retries) THEN Continue
                ELSE Throw(ApiError(500, <<"Internal Server Error">>,
                                    <<"Server error occurred">>, ep))
          [] s \in {502, 503, 504} ->
                IF RetriesLeft(a, retries) THEN Continue
                ELSE Throw(ApiError(s, StatusText(s),
                                    <<"Service temporarily unavailable">>, ep))
          [] OTHER -> Throw(ApiError(s, StatusText(s), errorMessage, ep))

\* variant: a 408 response is retried like 429
StatusSwitch_retry408(response, a, retries, ep) ==
    LET s == response.status
        errorMessage == ParsedMessage(response)
    IN  CASE s = 400 -> Throw(ValidationError(errorMessage, ""))
          [] s = 401 -> Throw(ApiError(401, <<"Unauthorized">>,
                                       <<"Authentication required">>, ep))
          [] s = 403 -> Throw(ApiError(403, <<"Forbidden">>,
                                       <<"Access denied">>, ep))
          [] s = 404 -> Throw(ApiError(404, <<"Not Found">>,
                                       <<"Resource not found: ">> \o ep, ep))
          [] s = 409 -> Throw(ApiError(s, StatusText(s), errorMessage, ep))
          [] s = 408 ->
                IF RetriesLeft(a, retries) THEN Continue
                ELSE Throw(ApiError(s, StatusText(s), errorMessage, ep))
          [] s = 429 ->
                IF RetriesLeft(a, retries) THEN Continue
                ELSE Throw(ApiError(429, <<"Too Many Requests">>,
                                    <<"Rate limit exceeded">>, ep))
          [] s = 500 -> Throw(ApiError(500, <<"Internal Server Error">>,
                                       <<"Server error occurred">>, ep))
          [] s \in {502, 503, 504} ->
                IF RetriesLeft(a, retries) THEN Continue
                ELSE Throw(ApiError(s, StatusText(s),
                                    <<"Service temporarily unavailable">>, ep))
          [] OTHER -> Throw(ApiError(s, StatusText(s), errorMessage, ep))

\* the switch over response.status
StatusSwitch(response, a, retries, ep) ==
    LET s == response.status
        errorMessage == ParsedMessage(response)
    IN  CASE s = 400 -> Throw(ValidationError(errorMessage, ""))
          [] s = 401 -> Throw(ApiError(401, <<"Unauthorized">>,
                                       <<"Authentication required">>, ep))
          [] s = 403 -> Throw(ApiError(403, <<"Forbidden">>,
                                       <<"Access denied">>, ep))
          [] s = 404 -> Throw(ApiError(404, <<"Not Found">>,
                                       <<"Resource not found: ">> \o ep, ep))
          [] s = 409 -> Throw(ApiError(s, StatusText(s), errorMessage, ep))
          [] s = 429 ->
                IF RetriesLeft(a, retries) THEN Continue
                ELSE Throw(ApiError(429, <<"Too Many Requests">>,
                                    <<"Rate limit exceeded">>, ep))
          [] s = 500 -> Throw(ApiError(500, <<"Internal Server Error">>,
                                       <<"Server error occurred">>, ep))
          [] s \in {502, 503, 504} ->
                IF RetriesLeft(a, retries) THEN Continue
                ELSE Throw(ApiError(s, StatusText(s),
                                    <<"Service temporarily unavailable">>, ep))
          [] OTHER -> Throw(ApiError(s, StatusText(s), errorMessage, ep))

\* the try block once fetch has resolved with a response
TryBlock(response, a, retries, ep) ==
    IF ok(response)
    THEN IF response.contentType # NoText
            /\ includes(response.contentType, "application/json")
         THEN IF response.body.parses
              THEN Return(JsonValue(response.body))
              ELSE Throw(Thrown("SyntaxError", <<"Unexpected token">>))
         ELSE Return(Null)
    ELSE StatusSwitch(response, a, retries, ep)

\* variant: a catch block that rethrows whatever it does not recognise
CatchBlock_rethrow(e, a, retries, ep) ==
    IF e.cls = "TypeError" /\ includes(e.message, "fetch")
    THEN IF RetriesLeft(a, retries) THEN Continue
         ELSE Throw(NetworkError(
                <<"Network connection failed. Please check your internet connection.">>,
                ep))
    ELSE Throw(e)

\* the catch block, for a rejection of fetch or an error thrown in the try
CatchBlock(e, a, retries, ep) ==
    IF e.cls = "TypeError" /\ includes(e.message, "fetch")
    THEN IF RetriesLeft(a, retries) THEN Continue
         ELSE Throw(NetworkError(
                <<"Network connection failed. Please check your internet connection.">>,
                ep))
    ELSE IF e.cls \in {"ApiError", "ValidationError", "NetworkError"}
    THEN Throw(e)
    ELSE Throw(Thrown("Error",
                <<"Unexpected error: ">> \o
                (IF InstanceOfError(e) THEN e.message ELSE <<"Unknown error">>)))

\* whether the iteration calls response.json(), and how that call ends
JsonOutcome(response) ==
    IF ok(response) /\ ~(response.contentType # NoText
                         /\ includes(response.contentType, "application/json"))
    THEN "not called"
    ELSE IF response.body.parses THEN "parsed" ELSE "threw"

\* one iteration of the loop body, given what fetch answered
Iteration(answer, a, retries, ep) ==
    IF answer.rejected
    THEN CatchBlock(answer.reason, a, retries, ep)
    ELSE LET t == TryBlock(answer.response, a, retries, ep)
         IN  IF t.act = "throw" THEN CatchBlock(t.error, a, retries, ep) ELSE t


\* variant: a request timeout is not retryable
isRetryableError_no408(e) ==
    IF e.cls = "NetworkError" THEN TRUE
    ELSE IF e.cls = "ApiError" THEN e.status \in {429, 502, 503, 504}
    ELSE FALSE

\* isRetryableError(error)
isRetryableError(e) ==
    IF e.cls = "NetworkError" THEN TRUE
    ELSE IF e.cls = "ApiError" THEN e.status \in {408, 429, 502, 503, 504}
    ELSE FALSE

----------------------------------------------------------------------------
(* The facade methods: validation, endpoint, catch clause                  *)

Modes == {"production", "test"}

\* argument values are texts; NoText is an absent or an empty value
Ids == {NoText, <<"id1">>}
FieldValues == {NoText, <<"given">>}
Emails == {NoText, <<"test", "+", "tag", "@", "example.com">>}
Usernames == {NoText, <<"test", " ", "user">>}
\* update payloads: absent, an object without keys, an object with keys
Payloads == {<<"undefined">>, <<"{", "}">>, <<"{", "title", "}">>}
ListDatas == {<<"{", "name", "}">>}

\* encodeURIComponent, token by token
EncodeToken(token) ==
    CASE token = "+" -> "%2B"
      [] token = "@" -> "%40"
      [] token = " " -> "%20"
      [] OTHER -> token

encodeURIComponent(text) == [i \in DOMAIN text |-> EncodeToken(text[i])]

RECURSIVE validateRequired(_, _)
validateRequired(data, requiredFields) ==
    IF requiredFields = <<>> THEN NoError
    ELSE IF data[Head(requiredFields)] = NoText
    THEN ValidationError(<<Head(requiredFields), " is required">>,
                         Head(requiredFields))
    ELSE validateRequired(data, Tail(requiredFields))

\* !updates || Object.keys(updates).length === 0
EmptyUpdates(updates) == updates = <<"undefined">> \/ updates = <<"{", "}">>

\* if (missing) throw new ValidationError(message)
Require(missing, message) ==
    IF missing THEN ValidationError(message, "") ELSE NoError

\* the first of two successive checks that throws
FirstOf(e1, e2) == IF e1 # NoError THEN e1 ELSE e2

\* error instanceof ApiError && error.status === s
HasStatus(e, s) == e.cls = "ApiError" /\ e.status = s

\* variant: createUser remaps every ApiError
createUser_catch_anyStatus(e) ==
    IF e.cls = "ApiError"
    THEN Rejected(ValidationError(<<"Username or email already exists">>, ""))
    ELSE Rejected(e)

\* the catch clauses of the facade methods around their call of request
createUser_catch(e) ==
    IF HasStatus(e, 409)
    THEN Rejected(ValidationError(<<"Username or email already exists">>, ""))
    ELSE Rejected(e)

getUser_catch(e) ==
    IF HasStatus(e, 404)
    THEN Rejected(ValidationError(<<"User not found">>, ""))
    ELSE Rejected(e)

\* variant: getUserByEmail reuses the message of getUser
getUserByEmail_catch_sameMessage(e) ==
    IF HasStatus(e, 404)
    THEN Rejected(ValidationError(<<"User not found">>, ""))
    ELSE Rejected(e)

getUserByEmail_catch(e) ==
    IF HasStatus(e, 404)
    THEN Rejected(ValidationError(<<"User with this email not found">>, ""))
    ELSE Rejected(e)

getUserByUsername_catch(e) ==
    IF HasStatus(e, 404)
    THEN Rejected(ValidationError(<<"User with this username not found">>, ""))
    ELSE Rejected(e)

\* variant: getUserSeries swallows every ApiError
getUserSeries_catch_anyStatus(e) ==
    IF e.cls = "ApiError" THEN Resolved(EmptyArray) ELSE Rejected(e)

getUserSeries_catch(e) ==
    IF HasStatus(e, 404) THEN Resolved(EmptyArray) ELSE Rejected(e)

\* variant: getRecommendations tests for the wrong error class
getRecommendations_catch_wrongClass(e) ==
    IF e.cls = "ValidationError" /\ e.status = 404
    THEN Resolved(EmptyArray) ELSE Rejected(e)

getRecommendations_catch(e) ==
    IF HasStatus(e, 404) THEN Resolved(EmptyArray) ELSE Rejected(e)

\* how the promise of facade method o settles when request throws e
FacadeCatch(o, e) ==
    CASE o = "createUser" -> createUser_catch(e)
      [] o = "getUser" -> getUser_catch(e)
      [] o = "getUserByEmail" -> getUserByEmail_catch(e)
      [] o = "getUserByUsername" -> getUserByUsername_catch(e)
      [] o = "getUserSeries" -> getUserSeries_catch(e)
      [] o = "getRecommendations" -> getRecommendations_catch(e)
      [] OTHER -> Rejected(e)

NoAnswer ==
    [status |-> 0, body |-> NoBody, reason |-> NoError, kind |-> "none",
     json |-> "not called"]

\* request returns or throws: its promise and the facade's promise settle
Settle(r) ==
    /\ pc' = "done"
    /\ reqResult' = r
    /\ result' = IF r.state = "rejected" THEN FacadeCatch(op, r.error) ELSE r

\* A facade method is called: it validates, and either throws or calls
\* request, which enters its loop and invokes fetch for attempt 0.
Invoke(o, a, invalid, ep) ==
    /\ pc = "idle"
    /\ op' = o
    /\ args' = a
    /\ IF invalid # NoError
       THEN /\ pc' = "done"
            /\ result' = Rejected(invalid)
            /\ UNCHANGED <<endpoint, attempt, fetchCount, reqResult>>
       ELSE /\ endpoint' = ep
            /\ attempt' = 0
            /\ IF LoopGuard(0, DefaultRetries)
               THEN /\ fetchCount' = fetchCount + 1
                    /\ pc' = "fetching"
                    /\ UNCHANGED <<reqResult, result>>
               ELSE /\ pc' = "done"
                    /\ reqResult' = Resolved(Undefined)
                    /\ result' = Resolved(Undefined)
                    /\ UNCHANGED fetchCount
    /\ UNCHANGED <<MODE, waits, log, last>>
    /\ UNCHANGED <<hookVars, concVars>>

createUser ==
    \E username \in FieldValues, email \in FieldValues,
       displayName \in FieldValues :
        LET userData == [username |-> username, email |-> email,
                         displayName |-> displayName]
        IN
        Invoke("createUser", userData,
               validateRequired(userData, <<"username", "email", "displayName">>),
               <<"/users">>)

getUser ==
    \E id \in Ids :
        Invoke("getUser", [id |-> id],
               Require(id = NoText, <<"User ID is required">>),
               <<"/users/">> \o id)

getUserByEmail ==
    \E email \in Emails :
        Invoke("getUserByEmail", [email |-> email],
               Require(email = NoText, <<"Email is required">>),
               <<"/users/email/">> \o encodeURIComponent(email))

getUserByUsername ==
    \E username \in Usernames :
        Invoke("getUserByUsername", [username |-> username],
               Require(username = NoText, <<"Username is required">>),
               <<"/users/username/">> \o encodeURIComponent(username))

updateUser ==
    \E id \in Ids, updates \in Payloads :
        Invoke("updateUser", [id |-> id, updates |-> updates],
               FirstOf(Require(id = NoText, <<"User ID is required">>),
                       Require(EmptyUpdates(updates), <<"Update data is required">>)),
               <<"/users/">> \o id)

deleteUser ==
    \E id \in Ids :
        Invoke("deleteUser", [id |-> id],
               Require(id = NoText, <<"User ID is required">>),
               <<"/users/">> \o id)

createSeries ==
    \E title \in FieldValues, userId \in FieldValues, genre \in FieldValues :
        LET seriesData == [title |-> title, userId |-> userId, genre |-> genre]
        IN
        Invoke("createSeries", seriesData,
               validateRequired(seriesData, <<"title", "userId", "genre">>),
               <<"/series">>)

getSeries ==
    \E id \in Ids, userId \in Ids :
        Invoke("getSeries", [id |-> id, userId |-> userId],
               Require(id = NoText \/ userId = NoText,
                       <<"Series ID and User ID are required">>),
               <<"/series/">> \o id \o <<"/">> \o userId)

getUserSeries ==
    \E userId \in Ids :
        Invoke("getUserSeries", [userId |-> userId],
               Require(userId = NoText, <<"User ID is required">>),
               <<"/series/user/">> \o userId)

getRecommendations ==
    \E userId \in Ids :
        Invoke("getRecommendations", [userId |-> userId], NoError,
               IF userId # NoText
               THEN <<"/series/recommendations/">> \o userId
               ELSE <<"/series/recommendations">>)

updateSeries ==
    \E id \in Ids, userId \in Ids, updates \in Payloads :
        Invoke("updateSeries",
               [id |-> id, userId |-> userId, updates |-> updates],
               FirstOf(Require(id = NoText \/ userId = NoText,
                               <<"Series ID and User ID are required">>),
                       Require(EmptyUpdates(updates), <<"Update data is required">>)),
               <<"/series/">> \o id \o <<"/">> \o userId)

deleteSeries ==
    \E id \in Ids, userId \in Ids :
        Invoke("deleteSeries", [id |-> id, userId |-> userId],
               Require(id = NoText \/ userId = NoText,
                       <<"Series ID and User ID are required">>),
               <<"/series/">> \o id \o <<"/">> \o userId)

likeSeries ==
    \E seriesId \in Ids, seriesUserId \in Ids, userId \in Ids :
        Invoke("likeSeries",
               [seriesId |-> seriesId, seriesUserId |-> seriesUserId,
                userId |-> userId],
               Require(seriesId = NoText \/ seriesUserId = NoText
                           \/ userId = NoText,
                       <<"Series ID, Series User ID, and User ID are required">>),
               <<"/series/">> \o seriesId \o <<"/">> \o seriesUserId
                   \o <<"/like">>)

unlikeSeries ==
    \E seriesId \in Ids, seriesUserId \in Ids, userId \in Ids :
        Invoke("unlikeSeries",
               [seriesId |-> seriesId, seriesUserId |-> seriesUserId,
                userId |-> userId],
               Require(seriesId = NoText \/ seriesUserId = NoText
                           \/ userId = NoText,
                       <<"Series ID, Series User ID, and User ID are required">>),
               <<"/series/">> \o seriesId \o <<"/">> \o seriesUserId
                   \o <<"/unlike">>)

getFriends ==
    \E userId \in Ids :
        Invoke("getFriends", [userId |-> userId], NoError,
               <<"/users/">> \o userId \o <<"/friends">>)

addFriend ==
    \E userId \in Ids, friendId \in Ids :
        Invoke("addFriend", [userId |-> userId, friendId |-> friendId],
               NoError,
               <<"/users/">> \o userId \o <<"/friends/">> \o friendId)

removeFriend ==
    \E userId \in Ids, friendId \in Ids :
        Invoke("removeFriend", [userId |-> userId, friendId |-> friendId],
               NoError,
               <<"/users/">> \o userId \o <<"/friends/">> \o friendId)

getFriendRequests ==
    \E userId \in Ids :
        Invoke("getFriendRequests", [userId |-> userId], NoError,
               <<"/users/">> \o userId \o <<"/friend-requests">>)

acceptFriendRequest ==
    \E userId \in Ids, friendId \in Ids :
        Invoke("acceptFriendRequest",
               [userId |-> userId, friendId |-> friendId], NoError,
               <<"/users/">> \o userId \o <<"/friend-requests/">> \o friendId
                   \o <<"/accept">>)

rejectFriendRequest ==
    \E userId \in Ids, friendId \in Ids :
        Invoke("rejectFriendRequest",
               [userId |-> userId, friendId |-> friendId], NoError,
               <<"/users/">> \o userId \o <<"/friend-requests/">> \o friendId
                   \o <<"/reject">>)

createFavoriteList ==
    \E userId \in Ids, listData \in ListDatas :
        Invoke("createFavoriteList",
               [userId |-> userId, listData |-> listData], NoError,
               <<"/users/">> \o userId \o <<"/favorites">>)

getFavoriteLists ==
    \E userId \in Ids :
        Invoke("getFavoriteLists", [userId |-> userId], NoError,
               <<"/users/">> \o userId \o <<"/favorites">>)

getFavoriteList ==
    \E userId \in Ids, listId \in Ids :
        Invoke("getFavoriteList", [userId |-> userId, listId |-> listId],
               NoError,
               <<"/users/">> \o userId \o <<"/favorites/">> \o listId)

updateFavoriteList ==
    \E userId \in Ids, listId \in Ids, updates \in Payloads :
        Invoke("updateFavoriteList",
               [userId |-> userId, listId |-> listId, updates |-> updates],
               NoError,
               <<"/users/">> \o userId \o <<"/favorites/">> \o listId)

deleteFavoriteList ==
    \E userId \in Ids, listId \in Ids :
        Invoke("deleteFavoriteList", [userId |-> userId, listId |-> listId],
               NoError,
               <<"/users/">> \o userId \o <<"/favorites/">> \o listId)

addSeriesToFavoriteList ==
    \E userId \in Ids, listId \in Ids, seriesId \in Ids :
        Invoke("addSeriesToFavoriteList",
               [userId |-> userId, listId |-> listId, seriesId |-> seriesId],
               NoError,
               <<"/users/">> \o userId \o <<"/favorites/">> \o listId
                   \o <<"/series">>)

removeSeriFromFavoriteList ==
    \E userId \in Ids, listId \in Ids, seriesId \in Ids :
        Invoke("removeSeriFromFavoriteList",
               [userId |-> userId, listId |-> listId, seriesId |-> seriesId],
               NoError,
               <<"/users/">> \o userId \o <<"/favorites/">> \o listId
                   \o <<"/series/">> \o seriesId)

----------------------------------------------------------------------------
(* The steps of a call after its first fetch                               *)

NoResponse == Response(0, NoText, NoBody)

\* the pending fetch settles and the loop body runs up to its next await
Answer(answer) ==
    LET o == Iteration(answer, attempt, DefaultRetries, endpoint)
    IN  /\ pc = "fetching"
        /\ log' = Append(log, IF answer.rejected THEN "rejection"
                              ELSE "response")
        /\ last' = IF answer.rejected
                   THEN [status |-> 0, body |-> NoBody,
                         reason |-> answer.reason,
                         kind |-> "rejection", json |-> "not called"]
                   ELSE [status |-> answer.response.status,
                         body |-> answer.response.body,
                         reason |-> NoError, kind |-> "response",
                         json |-> JsonOutcome(answer.response)]
        /\ CASE o.act = "continue" ->
                    /\ pc' = "delaying"
                    /\ waits' = Append(waits, delay(Backoff(attempt)))
                    /\ UNCHANGED <<reqResult, result>>
             [] o.act = "return" ->
                    /\ Settle(Resolved(o.value))
                    /\ UNCHANGED waits
             [] o.act = "throw" ->
                    /\ Settle(Rejected(o.error))
                    /\ UNCHANGED waits
        /\ UNCHANGED <<MODE, op, args, endpoint, attempt, fetchCount>>
        /\ UNCHANGED <<hookVars, concVars>>

FetchResolves ==
    \E response \in Responses :
        Answer([rejected |-> FALSE, response |-> response, reason |-> NoError])

FetchRejects ==
    \E reason \in Rejections :
        Answer([rejected |-> TRUE, response |-> NoResponse, reason |-> reason])

\* variant: a retry that does not count the attempt
DelayElapses_uncounted ==
    /\ pc = "delaying"
    /\ last' = NoAnswer
    /\ fetchCount' = fetchCount + 1
    /\ pc' = "fetching"
    /\ UNCHANGED <<MODE, op, args, endpoint, attempt, waits, log,
                   reqResult, result>>
    /\ UNCHANGED <<hookVars, concVars>>

\* the timer of delay fires: continue, attempt++, loop test, next fetch
DelayElapses ==
    /\ pc = "delaying"
    /\ attempt' = attempt + 1
    /\ last' = NoAnswer
    /\ IF LoopGuard(attempt + 1, DefaultRetries)
       THEN /\ fetchCount' = fetchCount + 1
            /\ pc' = "fetching"
            /\ UNCHANGED <<reqResult, result>>
       ELSE /\ Settle(Resolved(Undefined))
            /\ UNCHANGED fetchCount
    /\ UNCHANGED <<MODE, op, args, endpoint, waits, log>>
    /\ UNCHANGED <<hookVars, concVars>>

----------------------------------------------------------------------------
(* Calls of request running concurrently on one instance                   *)

\* bound of the exploration: calls of request made on the instance
MaxRequests == 2

\* an object is a set of <<key, value>> pairs with distinct keys
Get(obj, key, default) ==
    IF \E p \in obj : p[1] = key
    THEN (CHOOSE p \in obj : p[1] = key)[2]
    ELSE default

\* { ...a, ...b }: the keys of b replace those of a
Spread(a, b) == b \cup {p \in a : \A q \in b : q[1] # p[1]}

DefaultHeaders == {<<"Content-Type", "application/json">>}

\* the options a caller can hand to request: none (what every facade method
\* does as far as headers go), or a headers object
HeaderOptions ==
    {{},
     {<<"headers", {<<"Authorization", "Bearer t">>}>>},
     {<<"headers", {<<"Content-Type", "text/plain">>}>>}}

\* { headers: { 'Content-Type': 'application/json', ...options.headers },
\*   ...options }
FetchInit(options) ==
    Spread({<<"headers", Spread(DefaultHeaders, Get(options, "headers", {}))>>},
           options)

\* all the calls ask for the same endpoint
ConcEndpoint == <<"/users">>

\* what a fetch of these calls can answer
ConcAnswers ==
    {[response |-> Response(st, <<"application/json", "; charset=utf-8">>,
                            [message |-> NoText, parses |-> TRUE,
                             error |-> NoText]),
      rejected |-> FALSE, reason |-> NoError] : st \in {200, 404, 503}}
    \cup {[response |-> NoResponse, rejected |-> TRUE,
           reason |-> Thrown("TypeError", <<"Load failed">>)]}

\* variant: the loop variable is a field of the instance, shared by its calls
AttemptOf_shared(i) ==
    CHOOSE a \in {requests[j].attempt : j \in DOMAIN requests} :
        \A j \in DOMAIN requests : requests[j].attempt <= a

\* let attempt: a local of each call
AttemptOf(i) == requests[i].attempt

\* request(endpoint, options) is called: the loop is entered and fetch is
\* invoked for attempt 0
request ==
    \E options \in HeaderOptions :
        /\ Len(requests) < MaxRequests
        /\ LoopGuard(0, DefaultRetries)
        /\ requests' = Append(requests,
              [pc |-> "fetching", attempt |-> 0, fetchCount |-> 1,
               waits |-> <<>>, answers |-> <<>>,
               sent |-> Get(FetchInit(options), "headers", {}),
               settled |-> Pending, given |-> options])
        /\ invocations' = invocations + 1
        /\ UNCHANGED <<engineVars, hookVars>>

\* the pending fetch of one call settles and its loop body runs up to its
\* next await
FetchSettles ==
    \E i \in DOMAIN requests, answer \in ConcAnswers :
        LET c == requests[i]
            o == Iteration(answer, AttemptOf(i), DefaultRetries, ConcEndpoint)
        IN  /\ c.pc = "fetching"
            /\ requests' = [requests EXCEPT ![i] =
                  [pc |-> IF o.act = "continue" THEN "delaying" ELSE "done",
                   attempt |-> c.attempt, fetchCount |-> c.fetchCount,
                   waits |-> IF o.act = "continue"
                             THEN Append(c.waits, delay(Backoff(AttemptOf(i))))
                             ELSE c.waits,
                   answers |-> Append(c.answers, answer),
                   sent |-> c.sent,
                   settled |-> CASE o.act = "continue" -> Pending
                                 [] o.act = "return" -> Resolved(o.value)
                                 [] o.act = "throw" -> Rejected(o.error),
                   given |-> c.given]]
            /\ UNCHANGED invocations
            /\ UNCHANGED <<engineVars, hookVars>>

\* the timer of the delay of one call fires: attempt++, loop test, next fetch
TimerOfDelayFires ==
    \E i \in DOMAIN requests :
        LET c == requests[i]
        IN  /\ c.pc = "delaying"
            /\ IF LoopGuard(c.attempt + 1, DefaultRetries)
               THEN /\ requests' = [requests EXCEPT ![i] =
                          [pc |-> "fetching", attempt |-> c.attempt + 1,
                           fetchCount |-> c.fetchCount + 1,
                           waits |-> c.waits, answers |-> c.answers,
                           sent |-> Get(FetchInit(c.given), "headers", {}),
                           settled |-> c.settled, given |-> c.given]]
                    /\ invocations' = invocations + 1
               ELSE /\ requests' = [requests EXCEPT ![i] =
                          [pc |-> "done", attempt |-> c.attempt + 1,
                           fetchCount |-> c.fetchCount,
                           waits |-> c.waits, answers |-> c.answers,
                           sent |-> c.sent,
                           settled |-> Resolved(Undefined),
                           given |-> c.given]]
                    /\ UNCHANGED invocations
            /\ UNCHANGED <<engineVars, hookVars>>

----------------------------------------------------------------------------
(* The hooks of useApi.ts: values                                          *)

\* bounds of the exploration of a hook
MaxCalls == 4
MaxPending == 2

\* the value null of the state error, which no message equals
NullText == <<"null">>

\* a text in a condition: null and '' are falsy
Truthy(text) == text # NullText /\ text # NoText

\* values the function given to execute resolves to
CallValues ==
    {EmptyArray,
     JsonValue([message |-> NoText, parses |-> TRUE, error |-> NoText])}

\* values the function given to execute rejects with
CallFailures ==
    {NetworkError(
        <<"Network connection failed. Please check your internet connection.">>,
        <<"/series">>),
     ApiError(408, StatusText(408), <<"Request Timeout">>, <<"/series">>),
     ApiError(500, StatusText(500), <<"Server error occurred">>, <<"/series">>),
     ValidationError(<<"User not found">>, ""),
     Thrown("Error", <<"API Error">>),
     Thrown("Error", NoText),
     Thrown("string", <<"oops">>)}

\* every kind of value a call can reject with: what the facade throws for
\* each status, with and without a message, and values of other classes
ThrownValues ==
    CallFailures
    \cup { ApiError(st, StatusText(st), m, <<"/series">>) :
             st \in ErrorStatuses, m \in {NoText, <<"from the server">>} }
    \cup { ValidationError(<<"username", " is required">>, "username"),
           Thrown("TypeError", <<"Failed to ", "fetch">>) }

\* variant: only the typed failures keep a message of their own
getErrorMessage_typedOnly(e) ==
    IF e.cls = "ValidationError" THEN e.message
    ELSE IF e.cls = "NetworkError"
    THEN <<"Unable to connect to the server. Please check your internet connection and try again.">>
    ELSE IF e.cls = "ApiError"
    THEN CASE e.status = 401 -> <<"Please log in to continue.">>
           [] e.status = 403 ->
                <<"You do not have permission to perform this action.">>
           [] e.status = 404 -> <<"The requested resource was not found.">>
           [] e.status = 429 ->
                <<"Too many requests. Please wait a moment and try again.">>
           [] e.status = 500 ->
                <<"A server error occurred. Please try again later.">>
           [] e.status \in {502, 503, 504} ->
                <<"The service is temporarily unavailable. Please try again later.">>
           [] OTHER -> IF e.message # NoText THEN e.message
                       ELSE <<"An unexpected error occurred.">>
    ELSE <<"An unexpected error occurred.">>

\* getErrorMessage(error)
getErrorMessage(e) ==
    IF e.cls = "ValidationError" THEN e.message
    ELSE IF e.cls = "NetworkError"
    THEN <<"Unable to connect to the server. Please check your internet connection and try again.">>
    ELSE IF e.cls = "ApiError"
    THEN CASE e.status = 401 -> <<"Please log in to continue.">>
           [] e.status = 403 ->
                <<"You do not have permission to perform this action.">>
           [] e.status = 404 -> <<"The requested resource was not found.">>
           [] e.status = 429 ->
                <<"Too many requests. Please wait a moment and try again.">>
           [] e.status = 500 ->
                <<"A server error occurred. Please try again later.">>
           [] e.status \in {502, 503, 504} ->
                <<"The service is temporarily unavailable. Please try again later.">>
           [] OTHER -> IF e.message # NoText THEN e.message
                       ELSE <<"An unexpected error occurred.">>
    ELSE IF InstanceOfError(e) THEN e.message
    ELSE <<"An unexpected error occurred.">>

\* options.onSuccess and options.onError: both left out, or both given
CallbackOptions == {{}, {"onSuccess", "onError"}}

\* options.retryCount || 3, where 0 stands for an option left out
DefaultRetryCount == 3
RetryCountOptions == {0, 1}
RetryCeiling(option) == IF option # 0 THEN option ELSE DefaultRetryCount

\* Math.pow(2, retryCount) * 1000
RetryDelay(count) == (2 ^ count) * 1000

\* canRetry: error ? isRetryableError(error) : false, error being a string
canRetry ==
    IF Truthy(errorText) THEN isRetryableError(Thrown("string", errorText))
    ELSE FALSE

\* variant: execute throws a new Error carrying the display message
execute_throw_wrapped(err) == Thrown("Error", getErrorMessage(err))

\* throw err in the catch block of execute
execute_throw(err) == err

Remove(seq, i) == [j \in 1..(Len(seq) - 1) |-> IF j < i THEN seq[j] ELSE seq[j + 1]]

----------------------------------------------------------------------------
(* The hooks of useApi.ts: operations                                      *)

\* options.onSuccess(result), if the option is given
onSuccess_args(r) ==
    IF r.state = "resolved" /\ "onSuccess" \in callbacks
    THEN <<r.value>> ELSE <<>>

\* variant: the error callback runs whenever an execute ends
onError_args_always(r) ==
    IF "onError" \in callbacks
    THEN <<IF r.state = "rejected" THEN getErrorMessage(r.error)
           ELSE NullText>>
    ELSE <<>>

\* options.onError(errorMessage), if the option is given
onError_args(r) ==
    IF r.state = "rejected" /\ "onError" \in callbacks
    THEN <<getErrorMessage(r.error)>> ELSE <<>>

\* variant: the result of an execute that was overtaken is dropped
setData_latestStarted(c, r) == IF c.overtaken THEN dataValue ELSE r.value

\* setData(result)
setData(c, r) == r.value

\* variant: loading tells whether an execute is still pending
finally_loading_counted(rest) == rest # <<>>

\* finally { setLoading(false) }
finally_loading(rest) == FALSE

\* the i-th pending execute resolves: the executes started before it have
\* been overtaken
Overtake(seq, i) ==
    [j \in 1..Len(seq) |->
        IF j < i THEN [via |-> seq[j].via, closure |-> seq[j].closure,
                       overtaken |-> TRUE]
        ELSE seq[j]]

\* a step that ends no execute calls no callback
NoExecuteEnds ==
    /\ classified' = "none"
    /\ onSuccessArgs' = <<>>
    /\ onErrorArgs' = <<>>
    /\ late' = FALSE
    /\ UNCHANGED callbacks

\* execute up to its await: setLoading(true), setError(null), apiCall()
StartExecute(via, closure) ==
    /\ calls < MaxCalls
    /\ Len(pending) < MaxPending
    /\ loading' = TRUE
    /\ errorText' = NullText
    /\ calls' = calls + 1
    /\ pending' = Append(pending, [via |-> via, closure |-> closure,
                                   overtaken |-> FALSE])
    /\ UNCHANGED dataValue

\* the component calls execute(apiCall)
execute ==
    /\ hook = "useApi"
    /\ StartExecute("execute", 0)
    /\ step' = "execute"
    /\ NoExecuteEnds
    /\ UNCHANGED <<hook, enabled, maxRetries, retryCount, timers, refetches,
                   scheduled, outcome, executeResult, retryResult>>
    /\ UNCHANGED <<engineVars, concVars>>

\* the component calls retry(apiCall)
retry ==
    /\ hook = "useApi"
    /\ IF Truthy(errorText) /\ isRetryableError(Thrown("string", errorText))
       THEN /\ StartExecute("execute", 0)
            /\ retryResult' = Pending
       ELSE /\ retryResult' =
                Rejected(Thrown("Error", <<"Cannot retry this operation">>))
            /\ UNCHANGED <<loading, errorText, dataValue, calls, pending>>
    /\ step' = "retry"
    /\ NoExecuteEnds
    /\ UNCHANGED <<hook, enabled, maxRetries, retryCount, timers, refetches,
                   scheduled, outcome, executeResult>>
    /\ UNCHANGED <<engineVars, concVars>>

\* variant: reset also drops the pending executes and clears the timers
reset_cancelling ==
    /\ hook \in {"useApi", "useQuery"}
    /\ retryCount' = IF hook = "useQuery" THEN 0 ELSE retryCount
    /\ loading' = FALSE
    /\ errorText' = NullText
    /\ dataValue' = Null
    /\ pending' = <<>>
    /\ timers' = <<>>
    /\ step' = "reset"
    /\ NoExecuteEnds
    /\ UNCHANGED <<hook, enabled, maxRetries, calls,
                   refetches, scheduled, outcome, executeResult, retryResult>>
    /\ UNCHANGED <<engineVars, concVars>>

\* the component calls reset (of useApi, or the wrapper of useQuery)
reset ==
    /\ hook \in {"useApi", "useQuery"}
    /\ retryCount' = IF hook = "useQuery" THEN 0 ELSE retryCount
    /\ loading' = FALSE
    /\ errorText' = NullText
    /\ dataValue' = Null
    /\ step' = "reset"
    /\ NoExecuteEnds
    /\ UNCHANGED <<hook, enabled, maxRetries, pending, timers, calls,
                   refetches, scheduled, outcome, executeResult, retryResult>>
    /\ UNCHANGED <<engineVars, concVars>>

\* the component calls refetch, the fetchData of its latest render
refetch ==
    /\ hook = "useQuery"
    /\ StartExecute("fetchData", retryCount)
    /\ refetches' = refetches + 1
    /\ step' = "refetch"
    /\ NoExecuteEnds
    /\ UNCHANGED <<hook, enabled, maxRetries, retryCount, timers, scheduled,
                   outcome, executeResult, retryResult>>
    /\ UNCHANGED <<engineVars, concVars>>

\* the condition under which the catch block of fetchData sets a timer
fetchData_retries(err, closure) ==
    isRetryableError(err) /\ closure < maxRetries

\* the apiCall of the i-th pending execute settles with r: the rest of
\* execute runs, and the catch block of fetchData if fetchData awaited it
Finish(i, r) ==
    LET c == pending[i]
    IN  /\ pending' = Remove(IF r.state = "resolved"
                             THEN Overtake(pending, i) ELSE pending, i)
        /\ outcome' = r
        /\ loading' = finally_loading(pending')
        /\ onSuccessArgs' = onSuccess_args(r)
        /\ onErrorArgs' = onError_args(r)
        /\ late' = c.overtaken
        /\ IF r.state = "resolved"
           THEN /\ dataValue' = setData(c, r)
                /\ executeResult' = Resolved(r.value)
                /\ step' = "succeeded"
                /\ classified' = "none"
                /\ UNCHANGED <<errorText, timers, scheduled>>
           ELSE /\ errorText' = getErrorMessage(r.error)
                /\ executeResult' = Rejected(execute_throw(r.error))
                /\ step' = "failed"
                /\ UNCHANGED dataValue
                /\ IF c.via = "fetchData"
                   THEN /\ classified' = IF isRetryableError(r.error)
                                         THEN "retryable" ELSE "not retryable"
                        /\ IF fetchData_retries(r.error, c.closure)
                           THEN /\ timers' = Append(timers, c.closure)
                                /\ scheduled' = Append(scheduled,
                                                    RetryDelay(c.closure))
                           ELSE UNCHANGED <<timers, scheduled>>
                   ELSE /\ classified' = "none"
                        /\ UNCHANGED <<timers, scheduled>>
        /\ UNCHANGED <<hook, enabled, maxRetries, retryCount, calls,
                       refetches, retryResult, callbacks>>
        /\ UNCHANGED <<engineVars, concVars>>

CallResolves ==
    \E i \in DOMAIN pending, v \in CallValues : Finish(i, Resolved(v))

CallRejects ==
    \E i \in DOMAIN pending, e \in CallFailures : Finish(i, Rejected(e))

\* the call of a pending execute rejects with any kind of thrown value
CallRejectsAny ==
    \E i \in DOMAIN pending, e \in ThrownValues : Finish(i, Rejected(e))

\* a timer of fetchData fires: setRetryCount(prev => prev + 1), fetchData()
TimerFires ==
    \E i \in DOMAIN timers :
        /\ retryCount' = retryCount + 1
        /\ StartExecute("fetchData", timers[i])
        /\ timers' = Remove(timers, i)
        /\ step' = "timer"
        /\ NoExecuteEnds
        /\ UNCHANGED <<hook, enabled, maxRetries, refetches, scheduled,
                       outcome, executeResult, retryResult>>
        /\ UNCHANGED <<engineVars, concVars>>

\* the state of a hook after the first render of its component
Mounted(h, en, ceiling) ==
    /\ hook = h
    /\ enabled = en
    /\ maxRetries = ceiling
    /\ loading = FALSE
    /\ errorText = NullText
    /\ dataValue = Null
    /\ retryCount = 0
    /\ pending = <<>>
    /\ timers = <<>>
    /\ calls = 0
    /\ refetches = 0
    /\ scheduled = <<>>
    /\ step = "none"
    /\ outcome = Pending
    /\ executeResult = Pending
    /\ classified = "none"
    /\ retryResult = Pending
    /\ onSuccessArgs = <<>>
    /\ onErrorArgs = <<>>
    /\ late = FALSE

----------------------------------------------------------------------------
(* The specifications                                                      *)

\* no facade call has been made
EngineInit ==
    /\ MODE \in Modes
    /\ pc = "idle"
    /\ op = "none"
    /\ args = <<>>
    /\ endpoint = NoText
    /\ attempt = 0
    /\ fetchCount = 0
    /\ waits = <<>>
    /\ log = <<>>
    /\ last = NoAnswer
    /\ reqResult = Pending
    /\ result = Pending
    /\ requests = <<>>
    /\ invocations = 0

Init ==
    /\ EngineInit
    /\ Mounted("none", FALSE, DefaultRetryCount)
    /\ callbacks = {}

Next ==
    \/ createUser \/ getUser \/ getUserByEmail \/ getUserByUsername
    \/ updateUser \/ deleteUser
    \/ createSeries \/ getSeries \/ getUserSeries \/ getRecommendations
    \/ updateSeries \/ deleteSeries \/ likeSeries \/ unlikeSeries
    \/ getFriends \/ addFriend \/ removeFriend \/ getFriendRequests
    \/ acceptFriendRequest \/ rejectFriendRequest
    \/ createFavoriteList \/ getFavoriteLists \/ getFavoriteList
    \/ updateFavoriteList \/ deleteFavoriteList
    \/ addSeriesToFavoriteList \/ removeSeriFromFavoriteList
    \/ FetchResolves \/ FetchRejects \/ DelayElapses

Spec == Init /\ [][Next]_vars

\* every pending fetch settles and every timer of delay fires
FairSpec ==
    Spec /\ WF_vars(FetchResolves \/ FetchRejects) /\ WF_vars(DelayElapses)

\* a component has mounted one hook; the hooks do not read MODE
HookInit ==
    /\ EngineInit
    /\ MODE = "production"
    /\ callbacks \in CallbackOptions
    /\ \/ Mounted("useApi", FALSE, DefaultRetryCount)
       \/ \E en \in BOOLEAN, option \in RetryCountOptions :
            Mounted("useQuery", en, RetryCeiling(option))

HookNext ==
    \/ execute \/ retry \/ reset \/ refetch
    \/ CallResolves \/ CallRejects \/ TimerFires

HookSpec == HookInit /\ [][HookNext]_vars

\* calls of request interleave on one instance
ConcInit == Init /\ MODE = "production"

ConcNext == request \/ FetchSettles \/ TimerOfDelayFires

ConcSpec == ConcInit /\ [][ConcNext]_vars

\* a component has mounted useApi and its calls fail in every way
DisplayInit ==
    /\ EngineInit
    /\ MODE = "production"
    /\ callbacks \in CallbackOptions
    /\ Mounted("useApi", FALSE, DefaultRetryCount)

DisplayNext ==
    \/ execute \/ retry \/ reset \/ CallResolves \/ CallRejectsAny

DisplaySpec == DisplayInit /\ [][DisplayNext]_vars

TypeOK ==
    /\ MODE \in Modes
    /\ pc \in {"idle", "fetching", "delaying", "done"}
    /\ attempt \in 0..DefaultRetries
    /\ fetchCount \in 0..(DefaultRetries + 1)
    /\ last.kind \in {"none", "response", "rejection"}
    /\ reqResult.state \in {"pending", "resolved", "rejected"}
    /\ result.state \in {"pending", "resolved", "rejected"}

----------------------------------------------------------------------------
(* Properties                                                              *)

RetryStatuses == {429, 502, 503, 504}
ListReads == {"getUserSeries", "getRecommendations"}

\* every fetch of the call so far was answered with a response
AllResponses == \A i \in DOMAIN log : log[i] = "response"

\* the call ended on a response with a 2xx status, after responses only
EndedOnSuccessResponse ==
    pc = "done" /\ last.kind = "response" /\ ok(last) /\ AllResponses

\* C1 (as stated): retried statuses followed by a 2xx response make the call
\* resolve to the success value after exactly k fetches, the waits between
\* them being exactly 2^0, 2^1, ..., 2^(k-2) seconds.
C1_Stated ==
    EndedOnSuccessResponse =>
        /\ reqResult.state = "resolved"
        /\ reqResult.value.t \in {"json", "null"}
        /\ result = reqResult
        /\ fetchCount = Len(log)
        /\ waits = [i \in 1..(Len(log) - 1) |-> (2 ^ (i - 1)) * 1000]

\* C1 (amended): when the 2xx response that ends the call has a body that
\* parses (or is not declared JSON), the call resolves to the parsed body
\* (or null) after exactly k fetches, and the waits between them are 2^0,
\* 2^1, ..., 2^(k-2) seconds, each divided by ten when MODE is "test".
C1_RetryThenSuccess ==
    (EndedOnSuccessResponse /\ last.json # "threw") =>
        /\ reqResult.state = "resolved"
        /\ reqResult.value.t = (IF last.json = "parsed" THEN "json" ELSE "null")
        /\ result = reqResult
        /\ fetchCount = Len(log)
        /\ waits = [i \in 1..(Len(log) - 1) |->
                        IF MODE = "test" THEN (2 ^ (i - 1)) * 100
                        ELSE (2 ^ (i - 1)) * 1000]

C1_Witness ==
    /\ EndedOnSuccessResponse
    /\ reqResult.state = "resolved"
    /\ Len(log) = DefaultRetries + 1
    /\ waits = <<1000, 2000, 4000>>

\* C2: a call whose attempts were all answered with statuses of
\* {429, 502, 503, 504} ends only after DefaultRetries + 1 fetches, rejecting
\* with an ApiError that carries the last status and the message
\* "Rate limit exceeded" (429) or "Service temporarily unavailable".
C2_RetriesExhausted ==
    (pc = "done" /\ last.kind = "response" /\ last.status \in RetryStatuses
        /\ AllResponses) =>
        /\ fetchCount = DefaultRetries + 1
        /\ Len(log) = DefaultRetries + 1
        /\ reqResult.state = "rejected"
        /\ reqResult.error.cls = "ApiError"
        /\ reqResult.error.status = last.status
        /\ reqResult.error.message =
              (IF last.status = 429 THEN <<"Rate limit exceeded">>
               ELSE <<"Service temporarily unavailable">>)
        /\ result = reqResult

C2_Witness ==
    /\ pc = "done" /\ AllResponses /\ fetchCount = DefaultRetries + 1
    /\ reqResult.state = "rejected"
    /\ reqResult.error.status = 429
    /\ reqResult.error.message = <<"Rate limit exceeded">>

\* C3: whatever the transport answers, a call never makes more than
\* DefaultRetries + 1 fetches; rejections and retried statuses are counted
\* by the same counter.
C3_AttemptBudget ==
    /\ fetchCount <= DefaultRetries + 1
    /\ Len(log) <= fetchCount
    /\ pc \in {"fetching", "delaying"} => fetchCount = attempt + 1

C3_Witness ==
    /\ pc = "done" /\ fetchCount = DefaultRetries + 1
    /\ \E i \in DOMAIN log : log[i] = "rejection"
    /\ \E i \in DOMAIN log : log[i] = "response"

\* C4: when every fetch settles and every timer fires, a call that has
\* started eventually finishes; it finishes resolved or rejected, never by
\* leaving the retry loop without a result, and nothing happens afterwards.
C4_OneTerminalOutcome ==
    /\ [](pc \in {"fetching", "delaying"} => <>(pc = "done"))
    /\ [](pc = "done" =>
            /\ result.state \in {"resolved", "rejected"}
            /\ ~(reqResult.state = "resolved" /\ reqResult.value = Undefined))
    /\ [][pc = "done" => UNCHANGED vars]_vars

C4_Witness ==
    /\ pc = "done" /\ Len(waits) = DefaultRetries
    /\ result.state = "rejected"

\* C5 (as stated): whenever fetch rejects, whatever the rejection, the call
\* waits delay(attempt) and retries if attempt < retries, and otherwise
\* rejects with a NetworkError carrying the endpoint, which isRetryableError
\* accepts.
C5_Stated ==
    (pc \in {"delaying", "done"} /\ last.kind = "rejection") =>
        IF attempt < DefaultRetries
        THEN pc = "delaying" /\ waits[Len(waits)] = delay(Backoff(attempt))
        ELSE /\ reqResult.state = "rejected"
             /\ reqResult.error.cls = "NetworkError"
             /\ reqResult.error.endpoint = endpoint
             /\ isRetryableError(reqResult.error)

MissingRequired ==
    /\ op \notin {"none", "getRecommendations"}
    /\ \E f \in DOMAIN args \ {"updates", "listData"} : args[f] = NoText

\* C7 (as stated): a facade call with a missing required field or
\* identifier rejects with a ValidationError and never invokes fetch.
C7_Stated ==
    (pc # "idle" /\ MissingRequired) =>
        /\ pc = "done"
        /\ result.state = "rejected"
        /\ result.error.cls = "ValidationError"
        /\ fetchCount = 0

\* the request of a list read ended with a 404 response
ListRead404 ==
    /\ op \in ListReads
    /\ reqResult.state = "rejected"
    /\ reqResult.error.cls = "ApiError"
    /\ reqResult.error.status = 404

\* C8: a facade call whose request failed resolves only when it is
\* getUserSeries or getRecommendations and the failure is a 404; in every
\* other case it rejects with a failure.
C8_OnlyListReadsSwallow ==
    (pc = "done" /\ reqResult.state = "rejected" /\ ~ListRead404) =>
        /\ result.state = "rejected"
        /\ result.error.cls # "none"

C8_Witness ==
    /\ pc = "done" /\ op = "getUserSeries"
    /\ reqResult.state = "rejected" /\ reqResult.error.cls = "ApiError"
    /\ reqResult.error.status = 500
    /\ result = reqResult

\* C9: getUserSeries and getRecommendations resolve to the empty list when
\* their request ends with a 404 response, also after retried attempts.
C9_ListRead404IsEmpty ==
    (pc = "done" /\ op \in ListReads /\ last.kind = "response"
        /\ last.status = 404) =>
        /\ ListRead404
        /\ result = Resolved(EmptyArray)

C9_Witness ==
    /\ pc = "done" /\ op = "getRecommendations" /\ last.status = 404
    /\ Len(log) = DefaultRetries + 1
    /\ result = Resolved(EmptyArray)

\* C10: when the request of createUser ends with a 409 response, createUser
\* rejects with the ValidationError "Username or email already exists",
\* whatever the server's message; any other failure is passed on unchanged.
C10_CreateUserConflict ==
    (pc = "done" /\ op = "createUser" /\ reqResult.state = "rejected") =>
        IF last.status = 409
        THEN result = Rejected(ValidationError(
                        <<"Username or email already exists">>, ""))
        ELSE result = reqResult

C10_Witness ==
    /\ pc = "done" /\ op = "createUser" /\ last.status = 409
    /\ reqResult.error.message = <<"server message">>
    /\ result.error.cls = "ValidationError"
    /\ result.error.message = <<"Username or email already exists">>

\* C11: when the request of getUser, getUserByEmail or getUserByUsername
\* ends with a 404 response, the method rejects with a ValidationError whose
\* message is the one of its lookup key; every other failure of the request
\* is rejected unchanged.
UserLookups == {"getUser", "getUserByEmail", "getUserByUsername"}

NotFoundMessage(o) ==
    CASE o = "getUser" -> <<"User not found">>
      [] o = "getUserByEmail" -> <<"User with this email not found">>
      [] o = "getUserByUsername" -> <<"User with this username not found">>

C11_LookupNotFound ==
    (pc = "done" /\ op \in UserLookups /\ reqResult.state = "rejected") =>
        /\ result.state = "rejected"
        /\ IF reqResult.error.cls = "ApiError" /\ reqResult.error.status = 404
           THEN /\ last.status = 404
                /\ result.error.cls = "ValidationError"
                /\ result.error.message = NotFoundMessage(op)
           ELSE result.error = reqResult.error

C11_Witness ==
    /\ pc = "done" /\ op = "getUserByEmail"
    /\ last.kind = "response" /\ last.status = 404
    /\ result.state = "rejected"
    /\ result.error.cls = "ValidationError"
    /\ result.error.message = <<"User with this email not found">>

\* C12 (as stated): updateUser, updateSeries and updateFavoriteList called
\* with an absent or empty update payload reject with a ValidationError
\* and never invoke fetch.
UpdateMethods == {"updateUser", "updateSeries", "updateFavoriteList"}

C12_Stated ==
    (pc # "idle" /\ op \in UpdateMethods /\ EmptyUpdates(args.updates)) =>
        /\ fetchCount = 0
        /\ result.state = "rejected"
        /\ result.error.cls = "ValidationError"

\* C13: isRetryableError is true exactly for a NetworkError and for an
\* ApiError whose status is 408, 429, 502, 503 or 504; it is false for a
\* ValidationError, an ApiError of any other status and any other value.
\* Checked on the failure fetchData has just classified, on the message
\* retry classifies, and on an error of every class and status.
RetryableFailure(e) ==
    \/ e.cls = "NetworkError"
    \/ e.cls = "ApiError" /\ e.status \in {408, 429, 502, 503, 504}

C13_RetryableExactly ==
    /\ classified # "none" =>
            /\ outcome.state = "rejected"
            /\ (classified = "retryable") <=> RetryableFailure(outcome.error)
    /\ ~isRetryableError(Thrown("string", errorText))
    /\ \A st \in Statuses :
            isRetryableError(ApiError(st, StatusText(st), NoText, NoText))
                <=> st \in {408, 429, 502, 503, 504}
    /\ \A e \in CallFailures \cup Rejections \cup {NoError} :
            isRetryableError(e) <=> RetryableFailure(e)

C13_Witness ==
    /\ step = "failed" /\ classified = "retryable"
    /\ outcome.error.cls = "ApiError" /\ outcome.error.status = 408

\* C14 (as stated): retry invokes the call exactly when the hook's current
\* error comes from a retryable failure of its most recent execute, and
\* otherwise rejects with 'Cannot retry this operation'; once an execute has
\* failed, canRetry tells whether its failure was retryable.
LastFailedRetryable ==
    outcome.state = "rejected" /\ RetryableFailure(outcome.error)

C14_Stated ==
    /\ (step = "retry" /\ retryResult.state = "rejected") =>
            /\ retryResult.error.message = <<"Cannot retry this operation">>
            /\ ~(Truthy(errorText) /\ LastFailedRetryable)
    /\ (step = "retry" /\ retryResult.state = "pending") =>
            LastFailedRetryable
    /\ step = "failed" => (canRetry <=> RetryableFailure(outcome.error))

C16_Stated ==
    (step = "failed" /\ pending = <<>>) =>
        /\ loading = FALSE
        /\ dataValue = Null
        /\ errorText = getErrorMessage(outcome.error)

\* C17 (as stated): when an execute has just succeeded, data is the value
\* returned, error is null and loading is false, whatever other executes
\* were started or failed meanwhile.
C17_Stated ==
    step = "succeeded" =>
        /\ outcome.state = "resolved"
        /\ dataValue = outcome.value
        /\ errorText = NullText
        /\ loading = FALSE

\* C18 (as stated): a useQuery mounted with enabled = true has invoked its
\* query function by the time the component does anything else, without a
\* call of refetch; mounted with enabled = false it has not invoked it
\* before refetch is called.
C18_Stated ==
    /\ (hook = "useQuery" /\ enabled /\ step # "none" /\ refetches = 0) =>
            calls > 0
    /\ (hook = "useQuery" /\ ~enabled /\ refetches = 0) => calls = 0

\* C19 (as stated): one refetch is followed by at most maxRetries automatic
\* retries, so the query function is invoked at most maxRetries + 1 times.
\* (retryCount = calls - 1: every retry was counted and none was reset.)
C19_Stated ==
    (hook = "useQuery" /\ refetches = 1 /\ retryCount = calls - 1) =>
        calls <= maxRetries + 1

\* C20 (as stated): the n-th automatic retry (n = 0, 1, 2, ...) that follows
\* one refetch is scheduled after 2^n seconds.
C20_Stated ==
    (hook = "useQuery" /\ refetches = 1) =>
        \A n \in DOMAIN scheduled : scheduled[n] = (2 ^ (n - 1)) * 1000

BodyMessage(status, b) ==
    IF b.parses /\ b.message # NoText THEN b.message
    ELSE IF b.parses /\ b.error # NoText THEN b.error
    ELSE <<"Request failed: ", ToString(status), " ">> \o StatusText(status)

\* the class and the message the table of failures gives for a status
TableClass(status) == IF status = 400 THEN "ValidationError" ELSE "ApiError"

TableMessage(status, parsed, ep) ==
    CASE status = 401 -> <<"Authentication required">>
      [] status = 403 -> <<"Access denied">>
      [] status = 404 -> <<"Resource not found: ">> \o ep
      [] status = 500 -> <<"Server error occurred">>
      [] OTHER -> parsed

FollowsTable ==
    /\ reqResult.state = "rejected"
    /\ reqResult.error.cls = TableClass(last.status)
    /\ reqResult.error.status = (IF last.status = 400 THEN 0 ELSE last.status)
    /\ reqResult.error.message =
          TableMessage(last.status, BodyMessage(last.status, last.body),
                       endpoint)

EndedOnErrorResponse ==
    pc = "done" /\ last.kind = "response" /\ last.status \in ErrorStatuses

\* C23 (as stated): a call that ended on a non-success response, which was
\* therefore not retried, rejects with the failure of the table: 400, 401,
\* 403, 404, 409 and 500 as listed, every other status with an ApiError
\* carrying the parsed message.
C23_Stated ==
    EndedOnErrorResponse => FollowsTable

\* C23 (amended): a call that ended on a non-success response whose status
\* is not one of 429, 502, 503, 504 rejects with the failure of the table;
\* a call that ended on 429, 502, 503 or 504 (no retry was left) rejects
\* with a fixed message, not with the parsed one.
C23_StatusTable ==
    /\ (EndedOnErrorResponse /\ last.status \notin RetryStatuses)
          => FollowsTable
    /\ (EndedOnErrorResponse /\ last.status \in RetryStatuses) =>
          /\ reqResult.state = "rejected"
          /\ reqResult.error.cls = "ApiError"
          /\ reqResult.error.status = last.status
          /\ reqResult.error.message \in
                {<<"Rate limit exceeded">>, <<"Service temporarily unavailable">>}

C23_Witness ==
    /\ EndedOnErrorResponse /\ last.status = 409 /\ attempt = 1
    /\ last.body.message = <<"server message">>
    /\ last.body.error = <<"server error">>
    /\ reqResult.error.message = <<"server message">>

C27_RequestTimeoutNotRetried ==
    (last.kind = "response" /\ last.status = 408) =>
        /\ pc = "done"
        /\ reqResult.state = "rejected"
        /\ reqResult.error.cls = "ApiError"
        /\ reqResult.error.status = 408
        /\ reqResult.error.message = BodyMessage(408, last.body)
        /\ fetchCount = Len(log)
        /\ Len(waits) = Len(log) - 1
        /\ Len(log) = 1 => (fetchCount = 1 /\ waits = <<>>)
        /\ isRetryableError(reqResult.error)

C27_Witness ==
    /\ pc = "done" /\ last.kind = "response" /\ last.status = 408
    /\ attempt = 0 /\ fetchCount = 1 /\ waits = <<>>
    /\ reqResult.error.status = 408
    /\ reqResult.error.message = <<"Request failed: ", "408", " ", "Request Timeout">>
    /\ isRetryableError(reqResult.error)

GenericMessage == <<"An unexpected error occurred.">>

\* the status-keyed copy of the display message of an ApiError
StatusCopy(e) ==
    CASE e.status = 401 -> <<"Please log in to continue.">>
      [] e.status = 403 -> <<"You do not have permission to perform this action.">>
      [] e.status = 404 -> <<"The requested resource was not found.">>
      [] e.status = 429 -> <<"Too many requests. Please wait a moment and try again.">>
      [] e.status = 500 -> <<"A server error occurred. Please try again later.">>
      [] e.status = 502 -> <<"The service is temporarily unavailable. Please try again later.">>
      [] e.status = 503 -> <<"The service is temporarily unavailable. Please try again later.">>
      [] e.status = 504 -> <<"The service is temporarily unavailable. Please try again later.">>
      [] OTHER -> IF e.message = NoText THEN GenericMessage ELSE e.message

\* the display message the table gives, other being the message of a
\* thrown value that is none of the three typed failures
DisplayTable(e, other) ==
    CASE e.cls = "ValidationError" -> e.message
      [] e.cls = "NetworkError" ->
            <<"Unable to connect to the server. Please check your internet connection and try again.">>
      [] e.cls = "ApiError" -> StatusCopy(e)
      [] OTHER -> other

\* C24 (as stated): the display message of a failed call is the table's:
\* own message for a ValidationError, the connection text for a
\* NetworkError, the status-keyed copy for an ApiError, and the generic
\* fallback for any other thrown value.
C24_Stated ==
    step = "failed" =>
        errorText = DisplayTable(outcome.error, GenericMessage)

\* C24 (amended): as stated for the three typed failures; any other thrown
\* value that is an instance of Error gives its own message, empty or not,
\* and only a thrown value that is no Error gives the generic fallback.
C24_DisplayMessage ==
    step = "failed" =>
        errorText = DisplayTable(outcome.error,
                        IF outcome.error.cls = "string" THEN GenericMessage
                        ELSE outcome.error.message)

C24_Witness ==
    /\ step = "failed"
    /\ outcome.error.cls = "TypeError"
    /\ errorText = <<"Failed to ", "fetch">>
    /\ calls = 2

\* C28: loading is one flag: the step that ends an execute leaves loading
\* false whether or not other executes are still pending, and the step that
\* starts one leaves it true; loading is not the truth of "an execute is
\* pending".
C28_LoadingIsOneFlag ==
    /\ step \in {"succeeded", "failed"} => ~loading
    /\ step \in {"execute", "refetch", "timer"} => loading
    /\ (step = "retry" /\ retryResult.state = "pending") => loading

C28_Witness ==
    /\ hook = "useApi" /\ calls = 2
    /\ step = "succeeded"
    /\ Len(pending) = 1
    /\ ~loading

\* C29: data holds the value of the successful execute that finished most
\* recently: the step in which an execute resolves writes its value into
\* data, also when an execute started after it has resolved before it, and
\* no other step but reset changes data.
C29_LastFinishedWins ==
    [][ /\ step' = "succeeded" => dataValue' = outcome'.value
        /\ (step' = "succeeded" /\ late') => dataValue' = executeResult'.value
        /\ step' \notin {"succeeded", "reset"} => dataValue' = dataValue ]_vars

C29_Witness ==
    /\ hook = "useApi"
    /\ step = "succeeded" /\ late
    /\ pending = <<>> /\ calls = 2
    /\ outcome.value = EmptyArray
    /\ dataValue = EmptyArray

\* C30: reset cancels nothing: the step of reset leaves loading false,
\* error null, data null and a query's retry counter 0, and leaves the
\* pending executes and the scheduled timers as they were; an execute that
\* finishes right after the reset still writes data (or error), and a timer
\* that fires right after it still raises the counter and starts an execute
\* of the query function.
C30_ResetCancelsNothing ==
    [][ /\ step' = "reset" =>
              /\ ~loading' /\ errorText' = NullText /\ dataValue' = Null
              /\ hook = "useQuery" => retryCount' = 0
              /\ pending' = pending
              /\ timers' = timers
        /\ (step = "reset" /\ pending # <<>>) =>
              (ENABLED CallResolves /\ ENABLED CallRejects)
        /\ (step = "reset" /\ timers # <<>> /\ calls < MaxCalls
                /\ Len(pending) < MaxPending) => ENABLED TimerFires
        /\ (step = "reset" /\ step' = "succeeded") =>
              (dataValue' = outcome'.value /\ dataValue' # Null)
        /\ (step = "reset" /\ step' = "failed") =>
              (errorText' = getErrorMessage(outcome'.error)
                  /\ errorText' # NullText)
        /\ (step = "reset" /\ step' = "timer") =>
              /\ retryCount' = 1
              /\ calls' = calls + 1
              /\ Len(pending') = Len(pending) + 1
              /\ Len(timers') = Len(timers) - 1 ]_vars

C30_Witness ==
    /\ hook = "useQuery"
    /\ step = "reset"
    /\ ~loading /\ errorText = NullText /\ dataValue = Null /\ retryCount = 0
    /\ pending # <<>>
    /\ timers # <<>>

\* what the k-th answer of a call leads to when the call runs alone
AloneStep(c, k) ==
    Iteration(c.answers[k], k - 1, DefaultRetries, ConcEndpoint)

\* a call is where its own answers put it, whatever the other calls did
OwnCourse(c) ==
    LET n == Len(c.answers)
        retried == {k \in 1..n : AloneStep(c, k).act = "continue"}
    IN  /\ \A k \in 1..(n - 1) : k \in retried
        /\ c.waits = [k \in 1..Cardinality(retried) |-> (2 ^ (k - 1)) * 1000]
        /\ c.fetchCount = IF c.pc = "fetching" THEN n + 1 ELSE n
        /\ c.attempt = c.fetchCount - 1
        /\ c.pc = "fetching" => (retried = 1..n /\ c.settled = Pending)
        /\ c.pc = "delaying" => (n \in retried /\ c.settled = Pending)
        /\ c.pc = "done" =>
              /\ n \notin retried
              /\ c.settled =
                    (IF AloneStep(c, n).act = "return"
                     THEN Resolved(AloneStep(c, n).value)
                     ELSE Rejected(AloneStep(c, n).error))

RECURSIVE FetchesOf(_)
FetchesOf(seq) ==
    IF seq = <<>> THEN 0 ELSE Head(seq).fetchCount + FetchesOf(Tail(seq))

\* C22: with calls of request interleaved in every way, each call has its
\* own attempt counter and its own waits 1 s, 2 s, 4 s, its outcome is the
\* one its own answers give to a call running alone, and the instance has
\* invoked fetch once for every attempt of every call, identical calls to
\* one endpoint included.
C22_CallsAreIndependent ==
    /\ \A i \in DOMAIN requests : OwnCourse(requests[i])
    /\ invocations = FetchesOf(requests)

C22_Witness ==
    /\ Len(requests) = 2
    /\ requests[1].pc = "done" /\ requests[2].pc = "done"
    /\ requests[1].given = requests[2].given
    /\ requests[1].attempt = DefaultRetries
    /\ requests[1].settled.state = "rejected"
    /\ requests[2].attempt = 1
    /\ requests[2].settled.state = "resolved"
    /\ invocations = 6

====
